---- MODULE Spec2Model ----
(***************************************************************************)
(* TokenAsh: the usage history (models.py), its storage (storage.py), the  *)
(* chart configuration (chart.py) and the provider adapters (providers/).  *)
(*                                                                         *)
(* A date string "YYYY-MM-DD" is the tuple <<y, m, d>> of its zero-padded  *)
(* fields; Python's string comparison of two such strings is the           *)
(* lexicographic comparison of the tuples.  A date object is its ordinal.  *)
(* A dict is a function whose DOMAIN is the dict's key set.                *)
(***************************************************************************)
EXTENDS Integers, Sequences, FiniteSets, TLC

\* ---------------------------------------------------------------- bounds
\* ordinals 1..MaxDay are the calendar days the model draws dates from
MaxDay == 2
\* token counts are drawn from 0..MaxCount
MaxCount == 1
\* get_last_n_days is called with n in -MaxN..MaxN
MaxN == 3
\* an answer of a remote API lists at most MaxItems entries
MaxItems == 1
\* a README holds at most MaxDoc pieces of text before update_readme runs on it
MaxDoc == 4

\* ------------------------------------------------------------- primitives
Providers == {"openai", "anthropic"}

Counts == 0 .. MaxCount

Min(a, b) == IF a < b THEN a ELSE b

Max(a, b) == IF a > b THEN a ELSE b

\* date.isoformat(): ordinal 1 is 2024-12-31, so the days straddle a month
\* and a year boundary (valid for ordinals 1..32)
isoformat(o) == IF o <= 1 THEN <<2024, 12, 30 + o>> ELSE <<2025, 1, o - 1>>

\* str < str on two ISO date strings
StrLess(a, b) ==
    \/ a[1] < b[1]
    \/ a[1] = b[1] /\ a[2] < b[2]
    \/ a[1] = b[1] /\ a[2] = b[2] /\ a[3] < b[3]

Days == { isoformat(o) : o \in 1 .. MaxDay }

\* dict[str, int] values of DailyUsage.providers
ProviderMaps == UNION { [D -> Counts] : D \in SUBSET Providers }

\* DailyUsage(date, providers)
DailyUsage(date, providers) == [date |-> date, providers |-> providers]

DailyUsages == { DailyUsage(d, p) : d \in Days, p \in ProviderMaps }

NoUsage == DailyUsage(<<0, 0, 0>>, <<>>)

RECURSIVE SumOver(_, _)
SumOver(f, S) ==
    IF S = {} THEN 0
    ELSE LET k == CHOOSE k \in S : TRUE IN f[k] + SumOver(f, S \ {k})

\* DailyUsage.total
total(u) == SumOver(u.providers, DOMAIN u.providers)

\* ------------------------------------------------------------ UsageHistory
\* list.sort(key=lambda x: x.date): a stable insertion sort
RECURSIVE InsertByDate(_, _)
InsertByDate(sorted, x) ==
    IF sorted = <<>> THEN <<x>>
    ELSE IF StrLess(x.date, sorted[Len(sorted)].date)
         THEN Append(InsertByDate(SubSeq(sorted, 1, Len(sorted) - 1), x),
                     sorted[Len(sorted)])
         ELSE Append(sorted, x)

RECURSIVE sort_by_date(_)
sort_by_date(recs) ==
    IF recs = <<>> THEN <<>>
    ELSE InsertByDate(sort_by_date(SubSeq(recs, 1, Len(recs) - 1)), recs[Len(recs)])

\* for provider, count in daily_usage.providers.items(): record.providers[provider] = count
update_providers(old, new) ==
    [q \in (DOMAIN old) \cup (DOMAIN new) |-> IF q \in DOMAIN new THEN new[q] ELSE old[q]]

\* index of the first record with the date, 0 when there is none (the for loop's scan)
FirstIndex(recs, date) ==
    IF \E i \in 1 .. Len(recs) : recs[i].date = date
    THEN CHOOSE i \in 1 .. Len(recs) :
            /\ recs[i].date = date
            /\ \A j \in 1 .. (i - 1) : recs[j].date # date
    ELSE 0

\* a faulty variant: the update replaces the day's dict instead of merging into it
add_or_update_replace(recs, daily_usage) ==
    LET i == FirstIndex(recs, daily_usage.date) IN
    IF i > 0
    THEN [recs EXCEPT ![i] = daily_usage]
    ELSE sort_by_date(Append(recs, daily_usage))

\* a faulty variant: the new record is appended and the list is not sorted again
add_or_update_nosort(recs, daily_usage) ==
    LET i == FirstIndex(recs, daily_usage.date) IN
    IF i > 0
    THEN [recs EXCEPT ![i].providers = update_providers(@, daily_usage.providers)]
    ELSE Append(recs, daily_usage)

\* a faulty variant: the update adds the new counts to the recorded ones
add_or_update_accumulate(recs, daily_usage) ==
    LET i == FirstIndex(recs, daily_usage.date) IN
    IF i > 0
    THEN [recs EXCEPT ![i].providers =
            [q \in (DOMAIN @) \cup (DOMAIN daily_usage.providers) |->
                (IF q \in DOMAIN @ THEN @[q] ELSE 0)
                + (IF q \in DOMAIN daily_usage.providers
                   THEN daily_usage.providers[q] ELSE 0)]]
    ELSE sort_by_date(Append(recs, daily_usage))

\* UsageHistory.add_or_update
add_or_update(recs, daily_usage) ==
    LET i == FirstIndex(recs, daily_usage.date) IN
    IF i > 0
    THEN [recs EXCEPT ![i].providers = update_providers(@, daily_usage.providers)]
    ELSE sort_by_date(Append(recs, daily_usage))

\* Python's seq[k:]
SliceFrom(seq, k) ==
    LET start == IF k < 0 THEN Max(Len(seq) + k, 0) ELSE Min(k, Len(seq))
    IN  SubSeq(seq, start + 1, Len(seq))

\* a faulty variant: the first n records instead of the last n
get_last_n_days_head(recs, n) ==
    IF Len(recs) > n THEN SubSeq(recs, 1, Max(n, 0)) ELSE recs

\* UsageHistory.get_last_n_days
get_last_n_days(recs, n) ==
    IF Len(recs) > n THEN SliceFrom(recs, 0 - n) ELSE recs

\* ---------------------------------------------------------------- Storage
\* A Python value read from JSON carries its type: [t |-> "dict", v |-> f],
\* [t |-> "list", v |-> seq], [t |-> "int"].  The usage file is
\* [t |-> "missing"], [t |-> "not_json"] (text json.load rejects) or such a value.
PyDict(f) == [t |-> "dict", v |-> f]

PyList(seq) == [t |-> "list", v |-> seq]

PyInt == [t |-> "int"]

MissingFile == [t |-> "missing"]

NotJson == [t |-> "not_json"]

Raise(e) == [exc |-> e, val |-> <<>>]

Return(v) == [exc |-> "none", val |-> v]

\* DailyUsage.to_dict
DailyUsage_to_dict(u) ==
    PyDict([date |-> u.date, providers |-> u.providers, total |-> total(u)])

\* UsageHistory.to_dict
UsageHistory_to_dict(recs) ==
    PyDict([records |-> PyList([i \in 1 .. Len(recs) |-> DailyUsage_to_dict(recs[i])])])

\* a faulty variant: the record is rebuilt without its provider counts
DailyUsage_from_dict_noproviders(data) ==
    IF data.t # "dict" THEN Raise("TypeError")
    ELSE IF "date" \notin DOMAIN data.v THEN Raise("KeyError")
    ELSE Return(DailyUsage(data.v.date, <<>>))

\* DailyUsage.from_dict: data["date"], data.get("providers", {})
DailyUsage_from_dict(data) ==
    IF data.t # "dict" THEN Raise("TypeError")
    ELSE IF "date" \notin DOMAIN data.v THEN Raise("KeyError")
    ELSE Return(DailyUsage(data.v.date,
                           IF "providers" \in DOMAIN data.v THEN data.v.providers ELSE <<>>))

\* UsageHistory.from_dict: [DailyUsage.from_dict(r) for r in data.get("records", [])]
UsageHistory_from_dict(data) ==
    IF data.t # "dict" THEN Raise("AttributeError")
    ELSE LET rs == IF "records" \in DOMAIN data.v THEN data.v.records ELSE PyList(<<>>) IN
         IF rs.t # "list" THEN Raise("TypeError")
         ELSE LET made == [i \in 1 .. Len(rs.v) |-> DailyUsage_from_dict(rs.v[i])]
                  bad == { i \in 1 .. Len(rs.v) : made[i].exc # "none" }
              IN  IF bad # {}
                  THEN Raise(made[CHOOSE i \in bad : \A j \in bad : i <= j].exc)
                  ELSE Return([i \in 1 .. Len(rs.v) |-> made[i].val])

\* json.load
json_load(f) == IF f.t = "not_json" THEN Raise("JSONDecodeError") ELSE Return(f)

\* Storage.load_usage_history: except (json.JSONDecodeError, KeyError) starts fresh
load_usage_history(f) ==
    IF f.t = "missing" THEN Return(<<>>)
    ELSE LET data == json_load(f)
             got == IF data.exc # "none" THEN data ELSE UsageHistory_from_dict(data.val)
         IN  IF got.exc \in {"JSONDecodeError", "KeyError"} THEN Return(<<>>) ELSE got

\* a faulty variant: the write leaves out the newest record
save_usage_history_stale(recs) == UsageHistory_to_dict(SubSeq(recs, 1, Len(recs) - 1))

\* Storage.save_usage_history: json.dump(history.to_dict(), f)
save_usage_history(recs) == UsageHistory_to_dict(recs)

\* ----------------------------------------------------------- ChartGenerator
\* datetime.strptime(day.date, "%Y-%m-%d").strftime("%m/%d")
strftime_md(date) == <<date[2], date[3]>>

\* str.capitalize() of the provider names
capitalize(p) == IF p = "openai" THEN "Openai"
                 ELSE IF p = "anthropic" THEN "Anthropic" ELSE p

\* provider_data[provider] after the loop over the days: the counts of the
\* days that name the provider, in the order of the days
RECURSIVE provider_series(_, _)
provider_series(usage_data, p) ==
    IF usage_data = <<>> THEN <<>>
    ELSE LET n == Len(usage_data)
             before == provider_series(SubSeq(usage_data, 1, n - 1), p)
         IN  IF p \in DOMAIN usage_data[n].providers
             THEN Append(before, usage_data[n].providers[p])
             ELSE before

RECURSIVE SumSeq(_)
SumSeq(q) == IF q = <<>> THEN 0 ELSE q[Len(q)] + SumSeq(SubSeq(q, 1, Len(q) - 1))

RECURSIVE MaxSeq(_)
MaxSeq(q) == IF Len(q) = 1 THEN q[1] ELSE Max(q[Len(q)], MaxSeq(SubSeq(q, 1, Len(q) - 1)))

\* ChartGenerator._build_chart_config; "datasets" is the set of the list's
\* elements (the list follows the dicts' insertion order, which a function
\* does not keep), and the title is its three numbers before formatting
build_chart_config(usage_data) ==
    LET labels == [i \in 1 .. Len(usage_data) |-> strftime_md(usage_data[i].date)]
        totals == [i \in 1 .. Len(usage_data) |-> total(usage_data[i])]
        keys == UNION { DOMAIN usage_data[i].providers : i \in 1 .. Len(usage_data) }
        datasets ==
            IF keys # {}
            THEN { [label |-> capitalize(p), data |-> provider_series(usage_data, p)] :
                     p \in keys }
            ELSE { [label |-> "Total Tokens", data |-> totals] }
        total_tokens == SumSeq(totals)
    IN  [type |-> IF keys # {} THEN "bar" ELSE "line",
         labels |-> labels,
         datasets |-> datasets,
         total_tokens |-> total_tokens,
         avg_tokens |-> IF totals # <<>> THEN total_tokens \div Len(totals) ELSE 0,
         max_tokens |-> IF totals # <<>> THEN MaxSeq(totals) ELSE 0]

NoConfig == [type |-> "none"]

\* ChartGenerator.generate_chart_url: the URL carries the configuration
generate_chart_url(usage_data) ==
    [kind |-> "url", config |-> build_chart_config(usage_data)]

\* ChartGenerator.generate_chart_image; fetched: requests.get and
\* raise_for_status raised no RequestException
generate_chart_image(usage_data, fetched) ==
    IF usage_data = <<>> THEN [kind |-> "None", config |-> NoConfig]
    ELSE IF fetched
         THEN [kind |-> "path", config |-> generate_chart_url(usage_data).config]
         ELSE [kind |-> "None", config |-> NoConfig]

\* ChartGenerator.generate_markdown
generate_markdown(usage_data) ==
    IF usage_data = <<>> THEN [kind |-> "no_data", config |-> NoConfig]
    ELSE [kind |-> "markdown", config |-> generate_chart_url(usage_data).config]

\* ---------------------------------------------------------------- providers
\* UsageData(date, input_tokens, output_tokens, total_tokens)
UsageData(date, input_tokens, output_tokens, total_tokens) ==
    [date |-> date, input_tokens |-> input_tokens,
     output_tokens |-> output_tokens, total_tokens |-> total_tokens]

\* dict.get(key, default)
Get(d, key, default) == IF key \in DOMAIN d THEN d[key] ELSE default

\* an answer of the remote API: the request raised a RequestException, or
\* the "data" list of the JSON object it returned
RequestException == [err |-> TRUE, data |-> <<>>]

Answer(data) == [err |-> FALSE, data |-> data]

RECURSIVE SumKey(_, _)
SumKey(items, key) ==
    IF items = <<>> THEN 0
    ELSE Get(items[Len(items)], key, 0) + SumKey(SubSeq(items, 1, Len(items) - 1), key)

\* OpenAIProvider.get_daily_usage: one request per day from start_date to
\* end_date, answers[day] is what the request for the day met
RECURSIVE OpenAI_days(_, _, _)
OpenAI_days(current_date, end_date, answers) ==
    IF current_date > end_date THEN <<>>
    ELSE LET a == answers[current_date]
             total_input == SumKey(a.data, "n_context_tokens_total")
             total_output == SumKey(a.data, "n_generated_tokens_total")
             today == IF ~a.err /\ (total_input > 0 \/ total_output > 0)
                      THEN <<UsageData(isoformat(current_date), total_input,
                                       total_output, total_input + total_output)>>
                      ELSE <<>>
         IN  today \o OpenAI_days(current_date + 1, end_date, answers)

OpenAI_get_daily_usage(configured, start_date, end_date, answers) ==
    IF ~configured THEN <<>> ELSE OpenAI_days(start_date, end_date, answers)

\* AnthropicProvider.get_daily_usage: one request for the whole range
Anthropic_get_daily_usage(configured, start_date, end_date, answer) ==
    IF ~configured THEN <<>>
    ELSE IF answer.err THEN <<>>
    ELSE [i \in 1 .. Len(answer.data) |->
            UsageData(Get(answer.data[i], "date", <<>>),
                      Get(answer.data[i], "input_tokens", 0),
                      Get(answer.data[i], "output_tokens", 0),
                      Get(answer.data[i], "total_tokens", 0))]

\* --------------------------------------------------------------- main.py
\* A text is a sequence of pieces: a piece is a marker, a line break, the
\* generated markdown, or other text.
\* str.find(sub): the lowest 0-based index where sub occurs, -1 when it does not
Find(content, sub) ==
    LET at == { i \in 0 .. (Len(content) - Len(sub)) :
                  SubSeq(content, i + 1, i + Len(sub)) = sub }
    IN  IF at = {} THEN 0 - 1 ELSE CHOOSE i \in at : \A j \in at : i <= j

\* sub in content
Contains(content, sub) == Find(content, sub) >= 0

\* github_config.get("section_start", "<!-- TOKENASH:START -->")
section_start == <<"<!-- TOKENASH:START -->">>

\* github_config.get("section_end", "<!-- TOKENASH:END -->")
section_end == <<"<!-- TOKENASH:END -->">>

MissingReadme == [exists |-> FALSE, content |-> <<>>]

Readme(content) == [exists |-> TRUE, content |-> content]

\* update_readme(markdown, readme_path, start_marker, end_marker): the value
\* returned and the README it leaves
update_readme(markdown, readme, start_marker, end_marker) ==
    IF ~readme.exists THEN [ret |-> FALSE, readme |-> readme]
    ELSE LET content == readme.content IN
         IF ~Contains(content, start_marker) \/ ~Contains(content, end_marker)
         THEN [ret |-> FALSE, readme |-> readme]
         ELSE LET start_idx == Find(content, start_marker)
                  end_idx == Find(content, end_marker) + Len(end_marker)
                  new_content == SubSeq(content, 1, start_idx) \o start_marker \o <<"\n">>
                                 \o markdown \o <<"\n">> \o end_marker
                                 \o SliceFrom(content, end_idx)
              IN  [ret |-> TRUE, readme |-> Readme(new_content)]

\* chart_config.get("days", 30)
DefaultDays == 30

\* get_providers(config): the enabled providers that have an API key, OpenAI first
get_providers(enabled) ==
    (IF "openai" \in enabled THEN <<"openai">> ELSE <<>>)
    \o (IF "anthropic" \in enabled THEN <<"anthropic">> ELSE <<>>)

\* what provider.get_daily_usage(today, today) came to inside fetch_today_usage:
\* an exception, or the list it returned
Raised == [raised |-> TRUE, data |-> <<>>]

Returned(data) == [raised |-> FALSE, data |-> data]

\* a faulty variant: the exception of a provider leaves fetch_today_usage
fetch_one_propagate(usage, name, outcome) ==
    IF outcome.raised THEN [exc |-> "Exception", usage |-> usage]
    ELSE IF outcome.data # <<>>
         THEN [exc |-> "none",
               usage |-> [usage EXCEPT !.providers =
                            update_providers(@, [q \in {name} |-> outcome.data[1].total_tokens])]]
         ELSE [exc |-> "none", usage |-> usage]

\* one iteration of the loop of fetch_today_usage: try / except Exception
fetch_one(usage, name, outcome) ==
    IF outcome.raised THEN [exc |-> "none", usage |-> usage]
    ELSE IF outcome.data # <<>>
         THEN [exc |-> "none",
               usage |-> [usage EXCEPT !.providers =
                            update_providers(@, [q \in {name} |-> outcome.data[1].total_tokens])]]
         ELSE [exc |-> "none", usage |-> usage]

\* ------------------------------------------------------------------ state
VARIABLES
    records,    \* UsageHistory.records of the history object
    op,         \* the operation that ran last
    arg,        \* the DailyUsage passed to the last add_or_update
    n_arg,      \* the n passed to the last get_last_n_days
    existed,    \* the last add_or_update found its day in the history
    repeat,     \* the last add_or_update repeated the call right before it:
                \* "no", "after_new" (that call added the day), "after_update"
    window,     \* the list the last get_last_n_days returned
    file,       \* the content of data/usage.json
    saved,      \* the records given to the last save_usage_history
    intact,     \* the file is what that save wrote, but for "total" fields
    exc,        \* the exception the last operation raised to its caller
    out,        \* what the last ChartGenerator call returned
    configured, \* is_configured() of the provider called last
    remote,     \* what the remote API answered to that call
    usage,      \* the list the last get_daily_usage returned
    readme,     \* the README at readme_path
    ret,        \* what the last update_readme returned
    pc,         \* where run() stands
    providers,  \* run(): the list get_providers returned
    today,      \* fetch_today_usage: date.today()
    today_usage,\* fetch_today_usage: the DailyUsage it fills
    asked,      \* the providers fetch_today_usage has been through
    failed,     \* those of them whose request raised an error
    returned,   \* the count each of the others returned, if it returned one
    events      \* what run() did to the history and its file, in order

hvars == <<arg, n_arg, existed, repeat, window>>

svars == <<file, saved, intact>>

cvars == <<out>>

pvars == <<configured, remote, usage>>

mvars == <<readme, ret>>

rvars == <<pc, providers, today, today_usage, asked, failed, returned, events>>

vars == <<records, op, arg, n_arg, existed, repeat, window, file, saved, intact, exc,
          out, configured, remote, usage, readme, ret,
          pc, providers, today, today_usage, asked, failed, returned, events>>

HasDay(recs, date) == \E i \in 1 .. Len(recs) : recs[i].date = date

\* every History add_or_update can build from the empty one
RECURSIVE Build(_, _)
Build(f, S) ==
    IF S = {} THEN <<>>
    ELSE LET d == CHOOSE d \in S : TRUE
         IN  add_or_update(Build(f, S \ {d}), DailyUsage(d, f[d]))

Histories == UNION { { Build(f, S) : f \in [S -> ProviderMaps] } : S \in SUBSET Days }

NoCall ==
    /\ arg = NoUsage
    /\ n_arg = 0
    /\ existed = FALSE
    /\ repeat = "no"
    /\ window = <<>>

NoDisk ==
    /\ file = MissingFile
    /\ saved = <<>>
    /\ intact = FALSE

NoChart == out = [kind |-> "None", config |-> NoConfig]

NoFetch ==
    /\ configured = FALSE
    /\ remote = RequestException
    /\ usage = <<>>

NoReadme ==
    /\ readme = MissingReadme
    /\ ret = FALSE

NoRun ==
    /\ pc = "idle"
    /\ providers = <<>>
    /\ today = 1
    /\ today_usage = NoUsage
    /\ asked = <<>>
    /\ failed = {}
    /\ returned = <<>>
    /\ events = <<>>

Init ==
    /\ records = <<>>
    /\ op = "init"
    /\ exc = "none"
    /\ NoCall
    /\ NoDisk
    /\ NoChart
    /\ NoFetch
    /\ NoReadme
    /\ NoRun

\* history.add_or_update(daily_usage)
AddOrUpdate ==
    \E daily_usage \in DailyUsages :
        /\ records' = add_or_update(records, daily_usage)
        /\ op' = "add_or_update"
        /\ arg' = daily_usage
        /\ existed' = HasDay(records, daily_usage.date)
        /\ repeat' = IF op = "add_or_update" /\ arg = daily_usage
                     THEN (IF existed THEN "after_update" ELSE "after_new")
                     ELSE "no"
        /\ n_arg' = 0
        /\ window' = <<>>
        /\ UNCHANGED <<svars, exc, cvars, pvars, mvars, rvars>>

\* history.get_last_n_days(n)
GetLastNDays ==
    \E n \in (0 - MaxN) .. MaxN :
        /\ window' = get_last_n_days(records, n)
        /\ op' = "get_last_n_days"
        /\ n_arg' = n
        /\ arg' = NoUsage
        /\ existed' = FALSE
        /\ repeat' = "no"
        /\ UNCHANGED <<records, svars, exc, cvars, pvars, mvars, rvars>>

Next == AddOrUpdate \/ GetLastNDays

Spec == Init /\ [][Next]_vars

\* -------------------------------------------------- the storage on its own
InitStorage ==
    /\ records \in Histories
    /\ op = "init"
    /\ exc = "none"
    /\ NoCall
    /\ NoDisk
    /\ NoChart
    /\ NoFetch
    /\ NoReadme
    /\ NoRun

\* storage.save_usage_history(history)
Save ==
    /\ file' = save_usage_history(records)
    /\ saved' = records
    /\ intact' = TRUE
    /\ op' = "save"
    /\ exc' = "none"
    /\ UNCHANGED <<records, hvars, cvars, pvars, mvars, rvars>>

\* history = storage.load_usage_history(); a raised exception leaves history unbound
Load ==
    LET got == load_usage_history(file) IN
        /\ exc' = got.exc
        /\ records' = IF got.exc = "none" THEN got.val ELSE records
        /\ op' = "load"
        /\ UNCHANGED <<svars, hvars, cvars, pvars, mvars, rvars>>

Items(f) == f.v.records.v

WithItems(f, items) == PyDict([records |-> PyList(items)])

\* someone rewrites the "total" of one record of the file as save wrote it
EditTotal ==
    /\ intact
    /\ \A i \in 1 .. Len(saved) : Items(file)[i].v.total = total(saved[i])
    /\ \E i \in 1 .. Len(saved) :
          file' = WithItems(file, [Items(file) EXCEPT ![i].v.total = @ + 1])
    /\ op' = "edit_total"
    /\ exc' = "none"
    /\ UNCHANGED <<records, saved, intact, hvars, cvars, pvars, mvars, rvars>>

\* the file is removed, or its content is replaced by something malformed:
\* text that is not JSON, JSON whose top level is a list, a "records" that is a
\* number, a record that is a number, a record without its "date"
Corrupt ==
    /\ op = "save"
    /\ \/ file' \in { MissingFile, NotJson, PyList(<<>>), PyDict([records |-> PyInt]) }
       \/ \E i \in 1 .. Len(saved) :
             \/ file' = WithItems(file, [Items(file) EXCEPT ![i] = PyInt])
             \/ file' = WithItems(file, [Items(file) EXCEPT ![i] =
                           PyDict([providers |-> @.v.providers, total |-> @.v.total])])
    /\ intact' = FALSE
    /\ op' = "corrupt"
    /\ exc' = "none"
    /\ UNCHANGED <<records, saved, hvars, cvars, pvars, mvars, rvars>>

NextStorage == Save \/ Load \/ EditTotal \/ Corrupt

SpecStorage == InitStorage /\ [][NextStorage]_vars

\* ------------------------------------------- the chart generator on its own
InitChart ==
    /\ records \in Histories
    /\ op = "init"
    /\ exc = "none"
    /\ NoCall
    /\ NoDisk
    /\ NoChart
    /\ NoFetch
    /\ NoReadme
    /\ NoRun

ChartOps == {"generate_chart_url", "generate_chart_image", "generate_markdown"}

\* chart.generate_chart_url(recent_data), recent_data the window queried last
\* (there is none before the first query)
GenerateChartUrl ==
    /\ op # "init"
    /\ out' = generate_chart_url(window)
    /\ op' = "generate_chart_url"
    /\ UNCHANGED <<records, hvars, svars, exc, pvars, mvars, rvars>>

\* chart.generate_chart_image(recent_data)
GenerateChartImage ==
    \E fetched \in BOOLEAN :
        /\ op # "init"
        /\ out' = generate_chart_image(window, fetched)
        /\ op' = "generate_chart_image"
        /\ UNCHANGED <<records, hvars, svars, exc, pvars, mvars, rvars>>

\* chart.generate_markdown(recent_data)
GenerateMarkdown ==
    /\ op # "init"
    /\ out' = generate_markdown(window)
    /\ op' = "generate_markdown"
    /\ UNCHANGED <<records, hvars, svars, exc, pvars, mvars, rvars>>

NextChart == GetLastNDays \/ GenerateChartUrl \/ GenerateChartImage \/ GenerateMarkdown

SpecChart == InitChart /\ [][NextChart]_vars

\* ------------------------------------------------ the providers on their own
ItemTokens == 0 .. 1

\* the items of an OpenAI /usage answer
OpenAIItems ==
    { [n_context_tokens_total |-> i, n_generated_tokens_total |-> o] :
        i \in ItemTokens, o \in ItemTokens }

\* the entries of an Anthropic /usage answer: all four keys, or the date alone
AnthropicItems ==
    { [date |-> d, input_tokens |-> i, output_tokens |-> o, total_tokens |-> t] :
        d \in Days, i \in ItemTokens, o \in ItemTokens, t \in Counts }
    \cup { [date |-> d] : d \in Days }

SeqsUpTo(S, n) == UNION { [1 .. k -> S] : k \in 0 .. n }

Answers(S) == {RequestException} \cup { Answer(q) : q \in SeqsUpTo(S, MaxItems) }

InitProvider ==
    /\ records = <<>>
    /\ op = "init"
    /\ exc = "none"
    /\ NoCall
    /\ NoDisk
    /\ NoChart
    /\ NoFetch
    /\ NoReadme
    /\ NoRun

\* OpenAIProvider(api_key).get_daily_usage(start_date, end_date)
OpenAIGetDailyUsage ==
    \E key \in BOOLEAN, start_date \in 1 .. MaxDay, end_date \in 1 .. MaxDay :
        /\ start_date <= end_date
        /\ \E answers \in [start_date .. end_date -> Answers(OpenAIItems)] :
              /\ usage' = OpenAI_get_daily_usage(key, start_date, end_date, answers)
              /\ remote' = answers
        /\ configured' = key
        /\ op' = "openai.get_daily_usage"
        /\ UNCHANGED <<records, hvars, svars, exc, cvars, mvars, rvars>>

\* AnthropicProvider(api_key).get_daily_usage(start_date, end_date)
AnthropicGetDailyUsage ==
    \E key \in BOOLEAN, start_date \in 1 .. MaxDay, end_date \in 1 .. MaxDay :
        /\ start_date <= end_date
        /\ \E answer \in Answers(AnthropicItems) :
              /\ usage' = Anthropic_get_daily_usage(key, start_date, end_date, answer)
              /\ remote' = answer
        /\ configured' = key
        /\ op' = "anthropic.get_daily_usage"
        /\ UNCHANGED <<records, hvars, svars, exc, cvars, mvars, rvars>>

NextProvider == OpenAIGetDailyUsage \/ AnthropicGetDailyUsage

SpecProvider == InitProvider /\ [][NextProvider]_vars

\* ------------------------------------------------- update_readme on its own
Pieces == {"<!-- TOKENASH:START -->", "<!-- TOKENASH:END -->", "text"}

Documents == UNION { [1 .. k -> Pieces] : k \in 0 .. MaxDoc }

\* generate_markdown's snippet: it holds neither marker
Markdown == <<"## Token Consumption">>

InitReadme ==
    /\ records = <<>>
    /\ op = "init"
    /\ exc = "none"
    /\ NoCall
    /\ NoDisk
    /\ NoChart
    /\ NoFetch
    /\ NoRun
    /\ ret = FALSE
    /\ readme \in {MissingReadme} \cup { Readme(c) : c \in Documents }

\* update_readme(markdown, readme_path, start_marker, end_marker)
UpdateReadme ==
    /\ Len(readme.content) <= MaxDoc
    /\ LET got == update_readme(Markdown, readme, section_start, section_end) IN
          /\ readme' = got.readme
          /\ ret' = got.ret
    /\ op' = "update_readme"
    /\ exc' = "none"
    /\ UNCHANGED <<records, hvars, svars, cvars, pvars, rvars>>

NextReadme == UpdateReadme

SpecReadme == InitReadme /\ [][NextReadme]_vars

\* ------------------------------------------------------------------ run()
\* the History a run finds on disk: none yet, or one day an earlier run recorded
PriorHistories == {<<>>} \cup { <<u>> : u \in DailyUsages }

\* the usage file a run finds: none, one an earlier run saved, or a malformed
\* one (not JSON, a JSON list, a record without its "date")
PriorFiles ==
    {MissingFile, NotJson, PyList(<<>>),
     PyDict([records |-> PyList(<<PyDict([providers |-> <<>>, total |-> 0])>>)])}
    \cup { save_usage_history(h) : h \in PriorHistories }

\* the profile README a run finds, with its section markers
PriorReadmes ==
    {Readme(<<"text", "<!-- TOKENASH:START -->", "text", "<!-- TOKENASH:END -->">>)}

\* chart_config.get("days", 30): the default or a configured number
RunDays == ((0 - MaxN) .. MaxN) \cup {DefaultDays}

\* what the request of a provider for today can come to
Outcomes(name, day) ==
    IF name = "openai"
    THEN { [raised |-> FALSE, err |-> a.err,
            data |-> OpenAI_get_daily_usage(TRUE, day, day, [d \in {day} |-> a])] :
              a \in Answers(OpenAIItems) }
         \cup { [raised |-> TRUE, err |-> FALSE, data |-> <<>>] }
    ELSE { [raised |-> FALSE, err |-> a.err,
            data |-> Anthropic_get_daily_usage(TRUE, day, day, a)] :
              a \in Answers(AnthropicItems) }
         \cup { [raised |-> TRUE, err |-> FALSE, data |-> <<>>] }

InitRun ==
    /\ records = <<>>
    /\ op = "init"
    /\ exc = "none"
    /\ NoCall
    /\ file \in PriorFiles
    /\ saved = <<>>
    /\ intact = FALSE
    /\ NoChart
    /\ NoFetch
    /\ readme \in PriorReadmes
    /\ ret = FALSE
    /\ NoRun

\* run(): load_config, Storage(output_dir), get_providers; no provider, no run
RunStart ==
    /\ pc = "idle"
    /\ \E enabled \in SUBSET Providers, day \in 1 .. MaxDay :
          /\ providers' = get_providers(enabled)
          /\ today' = day
          /\ pc' = IF get_providers(enabled) = <<>> THEN "done" ELSE "load"
    /\ op' = "run"
    /\ UNCHANGED <<records, hvars, svars, exc, cvars, pvars, mvars,
                   today_usage, asked, failed, returned, events>>

\* history = storage.load_usage_history(), then usage = DailyUsage(date=today)
RunLoad ==
    /\ pc = "load"
    /\ LET got == load_usage_history(file) IN
          /\ exc' = got.exc
          /\ records' = IF got.exc = "none" THEN got.val ELSE records
          /\ pc' = IF got.exc = "none" THEN "fetch" ELSE "aborted"
    /\ events' = Append(events, "read")
    /\ today_usage' = DailyUsage(isoformat(today), <<>>)
    /\ UNCHANGED <<op, hvars, svars, cvars, pvars, mvars,
                   providers, today, asked, failed, returned>>

\* fetch_today_usage: the loop's iteration for the next provider; after the
\* last one the function returns
RunFetch ==
    /\ pc = "fetch"
    /\ Len(asked) < Len(providers)
    /\ LET name == providers[Len(asked) + 1] IN
       \E outcome \in Outcomes(name, today) :
          LET step == fetch_one(today_usage, name,
                                IF outcome.raised THEN Raised ELSE Returned(outcome.data))
          IN  /\ today_usage' = step.usage
              /\ exc' = step.exc
              /\ asked' = Append(asked, name)
              /\ failed' = IF outcome.raised \/ outcome.err
                           THEN failed \cup {name} ELSE failed
              /\ returned' = IF ~outcome.raised /\ outcome.data # <<>>
                             THEN update_providers(returned,
                                     [q \in {name} |-> outcome.data[1].total_tokens])
                             ELSE returned
              /\ pc' = IF step.exc # "none" THEN "aborted"
                       ELSE IF Len(asked) + 1 = Len(providers) THEN "merge" ELSE "fetch"
    /\ UNCHANGED <<records, op, hvars, svars, cvars, pvars, mvars,
                   providers, today, events>>

\* if today_usage.providers: history.add_or_update(today_usage)
RunMerge ==
    /\ pc = "merge"
    /\ IF DOMAIN today_usage.providers # {}
       THEN /\ records' = add_or_update(records, today_usage)
            /\ events' = Append(events, "merge")
            /\ pc' = "save"
       ELSE /\ pc' = "query"
            /\ UNCHANGED <<records, events>>
    /\ UNCHANGED <<op, hvars, svars, exc, cvars, pvars, mvars,
                   providers, today, today_usage, asked, failed, returned>>

\* storage.save_usage_history(history)
RunSave ==
    /\ pc = "save"
    /\ file' = save_usage_history(records)
    /\ events' = Append(events, "write")
    /\ pc' = "query"
    /\ UNCHANGED <<records, op, hvars, saved, intact, exc, cvars, pvars, mvars,
                   providers, today, today_usage, asked, failed, returned>>

\* recent_data = history.get_last_n_days(chart_config.get("days", 30));
\* if not recent_data: return
RunQuery ==
    /\ pc = "query"
    /\ \E days \in RunDays :
          /\ window' = get_last_n_days(records, days)
          /\ n_arg' = days
          /\ pc' = IF get_last_n_days(records, days) = <<>> THEN "done" ELSE "markdown"
    /\ events' = Append(events, "query")
    /\ UNCHANGED <<records, op, arg, existed, repeat, svars, exc, cvars, pvars, mvars,
                   providers, today, today_usage, asked, failed, returned>>

\* markdown = chart.generate_markdown(recent_data), written to token_usage.md;
\* update_readme when a profile repository is configured
RunMarkdown ==
    /\ pc = "markdown"
    /\ out' = generate_markdown(window)
    /\ \E profile_repo \in BOOLEAN :
          IF profile_repo
          THEN LET got == update_readme(Markdown, readme, section_start, section_end) IN
                  /\ readme' = got.readme
                  /\ ret' = got.ret
          ELSE UNCHANGED <<readme, ret>>
    /\ pc' = "done"
    /\ UNCHANGED <<records, op, hvars, svars, exc, pvars,
                   providers, today, today_usage, asked, failed, returned, events>>

NextRun == RunStart \/ RunLoad \/ RunFetch \/ RunMerge \/ RunSave \/ RunQuery \/ RunMarkdown

SpecRun == InitRun /\ [][NextRun]_vars

\* ------------------------------------------------------------------ claims
\* strictly ascending by day, hence no two records of one day
Ascending(recs) ==
    \A i, j \in 1 .. Len(recs) : i < j => StrLess(recs[i].date, recs[j].date)

\* C1: add_or_update(r) for a day the History already holds leaves the number
\* of records unchanged, sets the count of each provider r names to r's value
\* on that day, keeps the counts of the providers r does not name on that day,
\* and leaves every record of every other day as it was.
C1_UpdateExistingDay ==
    [][ (op' = "add_or_update" /\ HasDay(records, arg'.date)) =>
          /\ Len(records') = Len(records)
          /\ \A i \in 1 .. Len(records) :
                IF records[i].date = arg'.date
                THEN /\ records'[i].date = records[i].date
                     /\ DOMAIN records'[i].providers =
                            (DOMAIN records[i].providers) \cup (DOMAIN arg'.providers)
                     /\ \A p \in DOMAIN arg'.providers :
                            records'[i].providers[p] = arg'.providers[p]
                     /\ \A p \in (DOMAIN records[i].providers) \ (DOMAIN arg'.providers) :
                            records'[i].providers[p] = records[i].providers[p]
                ELSE records'[i] = records[i] ]_vars

\* C1 witness: a partial update of an existing day, one provider overwritten
\* with a new value next to a provider the record did not name, beside another day
C1_Witness ==
    /\ op = "add_or_update"
    /\ existed
    /\ Len(records) >= 2
    /\ \E i \in 1 .. Len(records) :
          /\ records[i].date = arg.date
          /\ DOMAIN arg.providers = {"anthropic"}
          /\ DOMAIN records[i].providers = {"openai", "anthropic"}
          /\ records[i].providers["openai"] # records[i].providers["anthropic"]

\* C2: from the empty History, after any sequence of add_or_update calls the
\* records are strictly ascending by day with no day twice, and a call whose
\* day was not present makes the History one record longer.
C2_AscendingAndGrowth ==
    /\ [] Ascending(records)
    /\ [][ (op' = "add_or_update" /\ ~HasDay(records, arg'.date)) =>
              Len(records') = Len(records) + 1 ]_vars

\* C2 witness: a new day was added that sorts before a day already held
C2_Witness ==
    /\ op = "add_or_update"
    /\ ~existed
    /\ Len(records) >= 2
    /\ records[1].date = arg.date

\* C3: for n >= 1, get_last_n_days(n) returns min(n, L) records, those with the
\* latest days, in ascending day order, and leaves the History's records as they were.
C3_LastN ==
    /\ [] ( (op = "get_last_n_days" /\ n_arg >= 1) =>
              /\ Len(window) = Min(n_arg, Len(records))
              /\ Ascending(window)
              /\ \A k \in 1 .. Len(window) : HasDay(records, window[k].date)
              /\ \A k \in 1 .. Len(window) :
                    window[k] = records[FirstIndex(records, window[k].date)]
              /\ \A i \in 1 .. Len(records) :
                    \/ \E k \in 1 .. Len(window) : window[k] = records[i]
                    \/ \A k \in 1 .. Len(window) : StrLess(records[i].date, window[k].date) )
    /\ [][ op' = "get_last_n_days" => records' = records ]_vars

\* C3 witness: a proper trailing window, n smaller than the History's length
C3_Witness ==
    /\ op = "get_last_n_days"
    /\ n_arg >= 1
    /\ n_arg < Len(records)
    /\ Len(window) = n_arg

\* C4 (as claimed): for every n <= 0, get_last_n_days(n) returns an empty sequence.
C4_NonPositiveEmpty ==
    (op = "get_last_n_days" /\ n_arg <= 0) => window = <<>>

\* C5: add_or_update(r) called twice in a row leaves the History as the first
\* call left it.
C5_Idempotent ==
    [][ (op = "add_or_update" /\ op' = "add_or_update" /\ arg' = arg) =>
            records' = records ]_vars

\* C5 witness: the call was repeated right after the call that added the day,
\* with counts for both providers, in a History of two days
C5_Witness ==
    /\ op = "add_or_update"
    /\ repeat = "after_new"
    /\ DOMAIN arg.providers = {"openai", "anthropic"}
    /\ Len(records) >= 2

\* C6: save_usage_history(H) followed by load_usage_history() yields the records
\* of H, same order, same day and provider counts, whatever the file's "total"
\* fields were changed to in between.
C6_RoundTrip ==
    (op = "load" /\ intact) => (exc = "none" /\ records = saved)

\* C6 witness: a load of a saved two-day History with both providers on a day,
\* after a "total" on disk was changed to a value that is not the day's sum
C6_Witness ==
    /\ op = "load"
    /\ intact
    /\ Len(saved) >= 2
    /\ \E i \in 1 .. Len(saved) :
          /\ DOMAIN saved[i].providers = Providers
          /\ total(saved[i]) > 0
          /\ Items(file)[i].v.total # total(saved[i])

\* C7 (as claimed): load_usage_history raises nothing, and for a missing or
\* malformed file it returns an empty History.
C7_LoadNeverFails ==
    op = "load" =>
        /\ exc = "none"
        /\ (~intact => records = <<>>)

\* the dataset of provider p in a chart configuration
DatasetOf(config, p) == CHOOSE ds \in config.datasets : ds.label = capitalize(p)

HasChart == op \in ChartOps /\ out.config # NoConfig

\* C8 (as claimed): for a non-empty window every provider dataset has as many
\* entries as there are labels, one per day of the window, and its entry at
\* position i is the provider's count on the i-th day, or 0 when the provider
\* has no entry that day.
C8_DenseSeries ==
    (HasChart /\ window # <<>>) =>
        /\ Len(out.config.labels) = Len(window)
        /\ \A p \in Providers :
              (\E i \in 1 .. Len(window) : p \in DOMAIN window[i].providers) =>
                 /\ \E ds \in out.config.datasets : ds.label = capitalize(p)
                 /\ Len(DatasetOf(out.config, p).data) = Len(out.config.labels)
                 /\ \A i \in 1 .. Len(window) :
                       DatasetOf(out.config, p).data[i] = Get(window[i].providers, p, 0)

\* C9 (as claimed): over an empty window each of generate_markdown,
\* generate_chart_image and generate_chart_url raises nothing and yields the
\* "no data" sentinel, never a chart configuration with empty label and data arrays.
C9_EmptyWindowSentinel ==
    (op \in ChartOps /\ window = <<>>) =>
        /\ exc = "none"
        /\ out.kind \in {"no_data", "None"}
        /\ out.config = NoConfig

\* C10 (as claimed): get_daily_usage of either adapter raises nothing, returns
\* no entry for a day with zero recorded usage, so every UsageData has a
\* positive token count, and returns an empty sequence when the adapter is
\* unconfigured or its request errors.
C10_AdapterContract ==
    op \in {"openai.get_daily_usage", "anthropic.get_daily_usage"} =>
        /\ exc = "none"
        /\ \A i \in 1 .. Len(usage) : usage[i].total_tokens > 0
        /\ ~configured => usage = <<>>
        /\ (op = "anthropic.get_daily_usage" /\ remote.err) => usage = <<>>
        /\ (op = "openai.get_daily_usage" /\ \A d \in DOMAIN remote : remote[d].err)
               => usage = <<>>

\* the text before the start marker, after the end marker and between the
\* two, each marker taken at its first occurrence
BeforeStart(content) == SubSeq(content, 1, Find(content, section_start))

AfterEnd(content) == SliceFrom(content, Find(content, section_end) + Len(section_end))

Between(content) ==
    SubSeq(content, Find(content, section_start) + Len(section_start) + 1,
           Find(content, section_end))

BothMarkers(content) == Contains(content, section_start) /\ Contains(content, section_end)

\* C11 (as claimed): when both markers occur in the document, wherever they
\* are, update_readme returns True, the text before the start marker and the
\* text after the end marker are in the result what they were, and the region
\* between the markers is the markdown; when a marker is absent the document
\* is unchanged, the function returns False and raises nothing.
C11_SpliceFrame ==
    [][ op' = "update_readme" =>
          /\ exc' = "none"
          /\ IF readme.exists /\ BothMarkers(readme.content)
             THEN /\ ret'
                  /\ BothMarkers(readme'.content)
                  /\ BeforeStart(readme'.content) = BeforeStart(readme.content)
                  /\ AfterEnd(readme'.content) = AfterEnd(readme.content)
                  /\ Between(readme'.content) = <<"\n">> \o Markdown \o <<"\n">>
             ELSE /\ ~ret'
                  /\ readme' = readme ]_vars

\* ---- run()
EventsAt(kind) == { i \in 1 .. Len(events) : events[i] = kind }

\* run() is past fetch_today_usage
Fetched == pc \in {"merge", "save", "query", "markdown", "done"}

\* run() is at its call of get_last_n_days, or past it
AtQuery == pc \in {"query", "markdown"} \/ (pc = "done" /\ EventsAt("read") # {})

\* the History holds, under today's date, the count every provider returned
MergedToday ==
    \E i \in 1 .. Len(records) :
        /\ records[i].date = isoformat(today)
        /\ \A p \in DOMAIN returned :
              /\ p \in DOMAIN records[i].providers
              /\ records[i].providers[p] = returned[p]

Persisted == load_usage_history(file) = Return(records)

\* C12: in fetch_today_usage a provider whose request raises an error leaves no
\* entry for that provider in today's usage and does not abort the run: every
\* provider of the list is still asked, the counts the other providers
\* returned are merged into the History under today's date and saved, and the
\* run goes on to the chart stage (the window query; with a window of at least
\* one day and a merged count the markdown is generated).
C12_ErrorDegrades ==
    failed # {} =>
        /\ pc # "aborted"
        /\ exc = "none"
        /\ \A p \in failed : p \notin DOMAIN today_usage.providers
        /\ Fetched => /\ asked = providers
                      /\ today_usage.providers = returned
        /\ (AtQuery /\ DOMAIN returned # {}) => (MergedToday /\ Persisted)
        /\ pc = "done" => EventsAt("query") # {}
        /\ (pc = "done" /\ DOMAIN returned # {} /\ n_arg >= 1) =>
              /\ window # <<>>
              /\ out = generate_markdown(window)
              /\ out.kind = "markdown"

\* the first provider failed, the second returned a count, and the run got
\* through the merge, the save and the markdown
C12_Witness ==
    /\ pc = "done"
    /\ Len(providers) = 2
    /\ providers[1] \in failed
    /\ providers[2] \in DOMAIN returned
    /\ MergedToday
    /\ Persisted
    /\ out.kind = "markdown"

\* C13: in every run the history file is read at most once and before any
\* merge; every merge is followed by a write of the whole History before the
\* window is queried, so that where run() calls get_last_n_days, and at the end
\* of the run, loading the file yields exactly the in-memory History; a run in
\* which no provider returned a count merges nothing and does not write the
\* file; the file changes in the save step only.
C13_ReadMergeWrite ==
    /\ [](/\ Cardinality(EventsAt("read")) <= 1
          /\ \A m \in EventsAt("merge") : \E r \in EventsAt("read") : r < m
          /\ \A m \in EventsAt("merge") :
                (pc \in {"query", "markdown", "done"}) =>
                    \E w \in EventsAt("write") :
                        /\ m < w
                        /\ \A q \in EventsAt("query") : w < q
          /\ AtQuery => Persisted
          /\ (Fetched /\ DOMAIN returned = {}) =>
                /\ EventsAt("merge") = {}
                /\ EventsAt("write") = {})
    /\ [][ /\ records' # records =>
                \/ pc = "load"
                \/ (pc = "merge" /\ DOMAIN returned # {} /\ pc' = "save")
           /\ file' # file =>
                /\ pc = "save"
                /\ DOMAIN returned # {}
                /\ file' = UsageHistory_to_dict(records) ]_vars

\* a run that found a day on file, merged today's count after it, saved and
\* queried the window
C13_Witness ==
    /\ pc = "done"
    /\ events = <<"read", "merge", "write", "query">>
    /\ Len(records) = 2
    /\ Persisted

====
